---- MODULE Spec2Model ----
(***************************************************************************)
(* Model of the YouTube dataset builder.                                   *)
(*                                                                         *)
(* Two variants of the program are in the repository:                      *)
(*   "single": Final Code/youtube_download_portable.py (one face per       *)
(*             record, flat output, dispatcher always sequential)          *)
(*   "multi" : youtube_download_portable.py (up to 10 faces per record in  *)
(*             a per-record directory, multiprocessing.Pool for            *)
(*             WORKERS > 1)                                                *)
(* Both read Final Code/config.py.                                         *)
(*                                                                         *)
(* The external libraries (yt_dlp, ffmpeg, cv2, the filesystem) are the    *)
(* environment: every call into them is a nondeterministic choice over     *)
(* the outcomes the calling code distinguishes (returns, returns without   *)
(* the file, raises).  log_failure and the console output are taken to     *)
(* succeed.                                                                *)
(***************************************************************************)
EXTENDS Integers, Sequences, FiniteSets, TLC

\* ---------------------------------------------------------------- bounds
MaxRecords == 2
MaxWorkers == 2
MaxOffset == 2
MaxUpdates == 10
MaxClock == 62

\* identifiers that occur in the record source (duplicates are possible:
\* the program does not deduplicate)
Ids == {"a", "b"}

\* the process that runs main(); it also runs process_video inline in the
\* sequential dispatcher
Main == 0
\* Main and the worker processes of Pool(WORKERS)
Procs == 0..MaxWorkers

VARIABLES
    variant,        \* "single" | "multi": which script is run
    MODE,           \* config.MODE
    WORKERS,        \* config.WORKERS after "auto" is resolved
    data,           \* main: list of records (youtube_id of each row)
    mainPc,         \* main: "loop" | "summary" | "done" | "aborted"
    idx,            \* main: 1-based position of the for loop over data
    pc,             \* process_video: position, per process
    cur,            \* process_video: row being processed, per process
    retry,          \* download_video: the retry argument, per process
    ret,            \* process_video: the returned value, per process
    video,          \* ids whose {id}_full.mp4 exists in OUTPUT_DIR
    audio,          \* ids whose {id}_audio.wav exists in AUDIO_DIR
    faces,          \* id -> number of face images of the record on storage
    facedirs,       \* ids whose FACE_DIR/{id} directory exists (multi)
    log,            \* lines of LOG_FILE, in order
    queue,          \* Pool: rows submitted with apply_async and not yet taken
    total_items,    \* ProgressTracker.total_items
    current_item,   \* ProgressTracker.current_item
    completed,      \* ProgressTracker.completed
    failed,         \* ProgressTracker.failed
    \* history variables (not program state)
    tried,          \* per process: outcome of each attempt of the current download_video
    delays,         \* per process: sleeps of the current download_video
    started,        \* per process: stages process_video has called, in order
    reported,       \* per process: what each finished stage returned
    result,         \* per row: outcome of its process_video call
    \* one call of extract_faces / extract_audio on given arguments
    fnIn,           \* the arguments: the video content and the offsets
    fnFaces,        \* what extract_faces did with them
    fnAudio,        \* what extract_audio asked ffmpeg for
    fnDone,         \* which of the two have been called
    \* two runs of process_video compared (history, kept when observed)
    observed,       \* what is kept of the runs: "nothing" | "stages" | "errors"
    trace,          \* per row: what the environment did at each stage
    errs,           \* per row: each download attempt's outcome and error text
    after,          \* per row: what the run had left when it was recorded
    \* the clock and the detailed progress report
    now,            \* time.time(), in seconds since the tracker was created
    last_update_time,   \* ProgressTracker.last_update_time
    detailed,       \* number of detailed reports shown so far (history)
    reportedAt      \* time of the last detailed report, -1: none yet (history)

vars == <<variant, MODE, WORKERS, data, mainPc, idx, pc, cur, retry, ret,
          video, audio, faces, facedirs, log, queue,
          total_items, current_item, completed, failed,
          tried, delays, started, reported, result,
          fnIn, fnFaces, fnAudio, fnDone, observed, trace, errs, after,
          now, last_update_time, detailed, reportedAt>>

confVars == <<variant, MODE, WORKERS, data, total_items, observed>>
fnVars == <<fnIn, fnFaces, fnAudio, fnDone>>
fsVars == <<video, audio, faces, facedirs>>
trackerVars == <<current_item, completed, failed>>
rerunVars == <<trace, errs, after>>
reportVars == <<last_update_time, detailed, reportedAt>>
clockVars == <<now, reportVars>>

\* ------------------------------------------------------- configuration
\* the worker processes of Pool(WORKERS)
Workers == 1..WORKERS

\* config.py: MAX_RETRIES = 2 in TEST mode, 3 otherwise
MAX_RETRIES == IF MODE = "TEST" THEN 2 ELSE 3

\* extract_faces: "if frame_count % 30 != 0: continue"
FRAME_STEP == 30
\* single variant: "if w >= 50 and h >= 50"
MIN_FACE == 50
\* multi variant: "faces_found < 10"
FACE_CAP == 10

Max(a, b) == IF a >= b THEN a ELSE b
Min(a, b) == IF a <= b THEN a ELSE b

\* ------------------------------------------------------------ log_failure
\* log_failure(youtube_id, reason, details): one appended line.  The row is
\* a history field (the call that wrote the line), not part of the text.
log_failure(lg, id, reason, row) ==
    Append(lg, [id |-> id, reason |-> reason, row |-> row])

\* ---------------------------------------------------------- download_video
\* a test that lets the call with retry = MAX_RETRIES retry once more
ShouldRetry_OneMore(r) == r <= MAX_RETRIES

\* "if retry < MAX_RETRIES" of the except branch
ShouldRetry(r) == r < MAX_RETRIES

\* a backoff that grows linearly instead of doubling
Backoff_Linear(r) == 2 * r

\* "time.sleep(2 ** retry)", the same in both branches of the error test
Backoff(r) == 2 ^ r

\* an except branch that logs every failed attempt, retried or not
ExceptLog_EveryAttempt(lg, id, r, row) ==
    log_failure(lg, id, "Download failed", row)

\* an except branch that logs when the first attempt fails
ExceptLog_FirstAttempt(lg, id, r, row) ==
    IF r = 0 THEN log_failure(lg, id, "Download failed", row) ELSE lg

\* the log after the except branch of one attempt has run
ExceptLog(lg, id, r, row) ==
    IF ShouldRetry(r) THEN lg ELSE log_failure(lg, id, "Download failed", row)

\* a download_video that returns True whenever yt_dlp did not raise
DownloadReturn_NoExistsCheck(existsAfter) == TRUE

\* "return os.path.exists(output_path)"
DownloadReturn(existsAfter) == existsAfter

\* the words the except branch looks for in the lowered text of the error:
\* 'any(x in error_str for x in ["age", "inappropriate", "sign in"])'
AgeWords == {"age", "inappropriate", "sign in"}

\* the errors an attempt can raise, each named by the word of its text the
\* test can find ("timeout": a text with none of the words)
ErrorTexts == {"sign in", "timeout"}

AgeRestricted(text) == text \in AgeWords

\* a policy that waits twice as long after an age or sign-in error
RetrySleep_AgeWaitsLonger(text, r) ==
    IF AgeRestricted(text) THEN 2 * Backoff(r) ELSE Backoff(r)

\* the two branches of the test, "time.sleep(2 ** retry)" in each
RetrySleep(text, r) ==
    IF AgeRestricted(text) THEN Backoff(r) ELSE Backoff(r)

\* what one attempt of yt_dlp can do, as download_video distinguishes it:
\*   "file"   extract_info returns and the destination file is there
\*   "nofile" extract_info returns and writes nothing at the destination
\*   "raise"  extract_info raises, or returns None ("Video info not
\*            available" is then raised by download_video itself)
DownloadOutcomes == {"file", "nofile", "raise"}

\* the error texts that can come with an outcome
ErrorsOf(outcome) == IF outcome = "raise" THEN ErrorTexts ELSE {""}

\* ----------------------------------------------------------- extract_audio
\*   "file"   ffmpeg.run returns and the audio file is written
\*   "nofile" ffmpeg.run returns and writes nothing
\*   "raise"  ffmpeg.run (or building the pipeline) raises
AudioOutcomes == {"file", "nofile", "raise"}

\* ffmpeg is given the whole input: ffmpeg.input(video_path), no t
FullTrack == [trim |-> FALSE, ss |-> 0, t |-> 0]

\* ffmpeg.input(video_path, ss=start) and output(..., t=duration)
Slice(start, duration) == [trim |-> TRUE, ss |-> start, t |-> duration]

\* what extract_audio asks ffmpeg for, for a record with offsets start and
\* end.  Single variant: "if end > 0 and end > start: duration = end -
\* start" else the full track.  The multi variant's extract_audio takes no
\* offsets: process_video unpacks start_time and end_time and drops them.
AudioPlan(policy, start, end) ==
    IF policy = "single" /\ end > 0 /\ end > start
    THEN Slice(start, end - start) ELSE FullTrack

\* an ffmpeg.run without overwrite_output: ffmpeg refuses to replace an
\* existing output file and exits with an error, which ffmpeg.run raises
FfmpegRun_NoOverwrite(outcome, existed) ==
    IF existed THEN "raise" ELSE outcome

\* "ffmpeg.run(stream, overwrite_output=True, quiet=True)": an audio file
\* already at audio_path is replaced, so it does not change what the call
\* does
FfmpegRun(outcome, existed) == outcome

\* an extract_audio that returns True whenever ffmpeg did not raise
AudioReturn_NoExistsCheck(outcome, existsAfter) == outcome # "raise"

\* "return os.path.exists(audio_path)" / "except: return False"
AudioReturn(outcome, existsAfter) ==
    IF outcome = "raise" THEN FALSE ELSE existsAfter

\* ----------------------------------------------------------- extract_faces
\* A video as extract_faces sees it: whether cv2 can open it, the decoded
\* frames (each the list of <<w, h>> boxes the detector returns for it), and
\* err, the position of a frame whose processing raises (0: none).
Big == <<80, 80>>
Small == <<40, 60>>

Vid(n, d1, d2, e) ==
    [opened |-> TRUE,
     frames |-> [k \in 1..n |->
                   IF k = FRAME_STEP THEN d1
                   ELSE IF k = 2 * FRAME_STEP THEN d2
                   ELSE <<Big>>],
     err |-> e]

Unopened == [opened |-> FALSE, frames |-> <<>>, err |-> 0]

Videos ==
    { Unopened,
      Vid(FRAME_STEP - 1, <<>>, <<>>, 0),
      Vid(FRAME_STEP, <<>>, <<>>, 0),
      Vid(FRAME_STEP, <<Small>>, <<>>, 0),
      Vid(FRAME_STEP, <<Small, Big>>, <<>>, 0),
      Vid(2 * FRAME_STEP, <<Small>>, <<Big, Big>>, 0),
      Vid(2 * FRAME_STEP, <<Big>>, <<>>, 2 * FRAME_STEP),
      Vid(2 * FRAME_STEP, <<Small>>, <<>>, 2 * FRAME_STEP),
      Vid(2 * FRAME_STEP, <<Big, Big, Big, Big, Big, Big>>,
                          <<Big, Small, Big, Big, Big, Big>>, 0) }

\* a size test that accepts a box with one side long enough
BigEnough_EitherSide(box) == box[1] >= MIN_FACE \/ box[2] >= MIN_FACE

\* single variant: "if w >= 50 and h >= 50"
BigEnough(box) == box[1] >= MIN_FACE /\ box[2] >= MIN_FACE

\* single variant, the for loop over one frame's detections from the j-th
\* on: the position of the first box that is big enough (it is written,
\* then break), 0 when there is none
RECURSIVE FirstBigEnough(_, _)
FirstBigEnough(dets, j) ==
    IF j > Len(dets) THEN 0
    ELSE IF BigEnough(dets[j]) THEN j
    ELSE FirstBigEnough(dets, j + 1)

\* a multi variant without the "if faces_found >= 10: break" of the for loop
CropsOfFrame_NoBreak(policy, dets, found) ==
    IF policy = "single"
    THEN (IF FirstBigEnough(dets, 1) > 0 THEN 1 ELSE 0)
    ELSE Len(dets)

\* number of crops written for one evaluated frame, given the number of
\* crops written so far
CropsOfFrame(policy, dets, found) ==
    IF policy = "single"
    THEN (IF FirstBigEnough(dets, 1) > 0 THEN 1 ELSE 0)
    ELSE Min(Len(dets), FACE_CAP - found)

\* the crops written for frame k: the frame, the position of the box among
\* the frame's detections, and the box
CropBoxes(policy, k, dets, found) ==
    IF policy = "single"
    THEN (IF FirstBigEnough(dets, 1) > 0
          THEN << [frame |-> k, det |-> FirstBigEnough(dets, 1),
                   box |-> dets[FirstBigEnough(dets, 1)]] >>
          ELSE << >>)
    ELSE [i \in 1..CropsOfFrame(policy, dets, found) |->
            [frame |-> k, det |-> i, box |-> dets[i]]]

\* number of detections of frame k the for loop looks at before it ends or
\* breaks
Examined(policy, dets, found) ==
    IF policy = "single"
    THEN (IF FirstBigEnough(dets, 1) > 0
          THEN FirstBigEnough(dets, 1) ELSE Len(dets))
    ELSE CropsOfFrame(policy, dets, found)

\* a sampling that counts the frames from 0: frames 1, 31, 61, ...
Sampled_FromFirst(k) == k % FRAME_STEP = 1

\* "frame_count += 1", "if frame_count % 30 != 0: continue": whether the
\* k-th decoded frame goes on to the detector
Sampled(k) == k % FRAME_STEP = 0

\* the while condition: "not face_found" / "faces_found < 10"
KeepScanning(policy, found) ==
    IF policy = "single" THEN found = 0 ELSE found < FACE_CAP

\* the while loop, before reading frame k: found the number of crops written
\* so far, evald the frames handed to the detector so far, crops the crops
\* written so far, exam the number of detections looked at in each
\* evaluated frame
RECURSIVE ScanFrames(_, _, _, _, _, _, _)
ScanFrames(policy, v, k, found, evald, crops, exam) ==
    IF ~KeepScanning(policy, found) \/ k > Len(v.frames)
    THEN [ret |-> found > 0, written |-> found, evaluated |-> evald,
          raised |-> FALSE, crops |-> crops, examined |-> exam]
    ELSE IF ~Sampled(k)
    THEN ScanFrames(policy, v, k + 1, found, evald, crops, exam)
    ELSE IF v.err = k
    THEN [ret |-> FALSE, written |-> found, evaluated |-> evald,
          raised |-> TRUE, crops |-> crops, examined |-> exam]
    ELSE ScanFrames(policy, v, k + 1,
                    found + CropsOfFrame(policy, v.frames[k], found),
                    Append(evald, k),
                    crops \o CropBoxes(policy, k, v.frames[k], found),
                    Append(exam, Examined(policy, v.frames[k], found)))

NoFaces ==
    [ret |-> FALSE, written |-> 0, evaluated |-> <<>>, raised |-> FALSE,
     crops |-> <<>>, examined |-> <<>>]

extract_faces(policy, v) ==
    IF ~v.opened THEN NoFaces
    ELSE ScanFrames(policy, v, 1, 0, <<>>, <<>>, <<>>)

\* extract_faces tabulated over the videos a downloaded file can hold
FacesOf ==
    [pol \in {"single", "multi"} |->
        [v \in Videos |-> extract_faces(pol, v)]]

\* face images of a record on storage after a call wrote n crops: the
\* single variant writes {id}_face.jpg, the multi variant
\* {id}_face_0.jpg .. {id}_face_{n-1}.jpg, overwriting files of those names
FacesAfter(policy, old, n) ==
    IF policy = "single" THEN (IF n > 0 THEN 1 ELSE old) ELSE Max(old, n)


\* ----------------------------------------------------------- process_video
RowId(p) == data[cur[p]]

\* history: what the environment did at one stage of the run of p (out),
\* and for the face stage the content of the downloaded file (v)
Traced(p, stage, out, v) ==
    trace' = IF observed = "stages"
             THEN [trace EXCEPT ![cur[p]] =
                     Append(@, [stage |-> stage, out |-> out, v |-> v])]
             ELSE trace

\* a process_video that ignores what the stage reported
AfterStage_Ignored(ok, next) == next

\* "if not <stage>(...): return False": where process_video goes after a
\* stage has reported ok
AfterStage(ok, next) == IF ok THEN next ELSE "returned"

\* process_video returns False (pc "returned") or goes on to stage next
Proceed(p, ok, next) ==
    /\ pc' = [pc EXCEPT ![p] = AfterStage(ok, next)]
    /\ ret' = [ret EXCEPT ![p] = IF AfterStage(ok, next) = "returned"
                                 THEN FALSE ELSE @]
    /\ result' = [result EXCEPT ![cur[p]] =
                    IF AfterStage(ok, next) = "returned" THEN "False" ELSE @]

\* the lines before the try: the output paths; the multi variant also
\* creates the record's face directory there, which can raise
\* (outcome "raise": os.makedirs or os.path.join raises)
PreparePaths(p, outcome) ==
    /\ pc[p] = "prepare"
    /\ outcome = "raise" => variant = "multi"
    /\ Traced(p, "prepare", outcome, Unopened)
    /\ IF outcome = "raise"
       THEN /\ pc' = [pc EXCEPT ![p] = "raised"]
            /\ result' = [result EXCEPT ![cur[p]] = "raised"]
            /\ UNCHANGED facedirs
       ELSE /\ pc' = [pc EXCEPT ![p] = "download"]
            /\ facedirs' = IF variant = "multi"
                           THEN facedirs \cup {RowId(p)} ELSE facedirs
            /\ UNCHANGED result
    /\ UNCHANGED <<confVars, clockVars, errs, after, fnVars, queue, mainPc, idx, cur, retry, ret, video, audio,
                   faces, log, trackerVars, tried, delays, started,
                   reported>>

\* one attempt of download_video: the try block and, when it raises, the
\* except branch (sleep and recursive call, or log_failure and return False)
DownloadAttempt(p, outcome, text) ==
    /\ pc[p] = "download"
    /\ text \in ErrorsOf(outcome)
    /\ errs' = IF observed = "errors"
               THEN [errs EXCEPT ![cur[p]] =
                       Append(@, [out |-> outcome, err |-> text])]
               ELSE errs
    /\ Traced(p, "download", outcome, Unopened)
    /\ tried' = [tried EXCEPT ![p] = Append(@, outcome)]
    /\ started' = [started EXCEPT ![p] =
                     IF tried[p] = <<>> THEN Append(@, "download") ELSE @]
    /\ video' = IF outcome = "file" THEN video \cup {RowId(p)} ELSE video
    /\ IF outcome = "raise"
       THEN /\ log' = ExceptLog(log, RowId(p), retry[p], cur[p])
            /\ IF ShouldRetry(retry[p])
               THEN /\ delays' = [delays EXCEPT ![p] =
                                    Append(@, RetrySleep(text, retry[p]))]
                    /\ retry' = [retry EXCEPT ![p] = @ + 1]
                    /\ UNCHANGED <<pc, ret, result, reported>>
               ELSE \* inside log_failure: the line is written, the file
                    \* is still open
                    /\ pc' = [pc EXCEPT ![p] = "download_log"]
                    /\ UNCHANGED <<delays, retry, ret, result, reported>>
       ELSE \* "return os.path.exists(output_path)"
            /\ reported' = [reported EXCEPT ![p] =
                              Append(@, DownloadReturn(RowId(p) \in video'))]
            /\ Proceed(p, DownloadReturn(RowId(p) \in video'), "audio")
            /\ UNCHANGED <<log, delays, retry>>
    /\ UNCHANGED <<confVars, clockVars, after, fnVars, queue, mainPc, idx, cur, audio, faces, facedirs,
                   trackerVars>>

\* extract_audio(video_path, audio_path, ...)
ExtractAudio(p, outcome) ==
    /\ pc[p] = "audio"
    /\ Traced(p, "audio", outcome, Unopened)
    /\ started' = [started EXCEPT ![p] = Append(@, "audio")]
    /\ LET ran == FfmpegRun(outcome, RowId(p) \in audio) IN
         /\ audio' = IF ran = "file" THEN audio \cup {RowId(p)} ELSE audio
         /\ reported' = [reported EXCEPT ![p] =
                           Append(@, AudioReturn(ran, RowId(p) \in audio'))]
         /\ Proceed(p, AudioReturn(ran, RowId(p) \in audio'), "faces")
    /\ UNCHANGED <<confVars, clockVars, errs, after, fnVars, queue, mainPc, idx, cur, retry, video, faces,
                   facedirs, log, trackerVars, tried, delays>>

\* extract_faces(video_path, face_path | face_dir, youtube_id) on a
\* downloaded file whose content is v
ExtractFaces(p, v) ==
    /\ pc[p] = "faces"
    /\ Traced(p, "faces", "video", v)
    /\ started' = [started EXCEPT ![p] = Append(@, "faces")]
    /\ LET r == FacesOf[variant][v] IN
         /\ faces' = [faces EXCEPT ![RowId(p)] =
                        FacesAfter(variant, @, r.written)]
         /\ reported' = [reported EXCEPT ![p] = Append(@, r.ret)]
         /\ Proceed(p, r.ret, "cleanup")
    /\ UNCHANGED <<confVars, clockVars, errs, after, fnVars, queue, mainPc, idx, cur, retry, video, audio,
                   facedirs, log, trackerVars, tried, delays>>

\* "if os.path.exists(video_path): os.remove(video_path)", "return True",
\* and the except branch of process_video when os.remove raises
Cleanup(p, outcome) ==
    /\ pc[p] = "cleanup"
    /\ outcome = "raise" => RowId(p) \in video
    /\ Traced(p, "cleanup", outcome, Unopened)
    /\ started' = [started EXCEPT ![p] = Append(@, "cleanup")]
    /\ IF outcome = "raise"
       THEN \* inside log_failure: the line is written, the file is still
            \* open
            /\ log' = log_failure(log, RowId(p), "Processing failed", cur[p])
            /\ pc' = [pc EXCEPT ![p] = "except_log"]
            /\ UNCHANGED <<video, ret, result>>
       ELSE /\ video' = video \ {RowId(p)}
            /\ pc' = [pc EXCEPT ![p] = "returned"]
            /\ ret' = [ret EXCEPT ![p] = TRUE]
            /\ result' = [result EXCEPT ![cur[p]] = "True"]
            /\ UNCHANGED log
    /\ UNCHANGED <<confVars, clockVars, errs, after, fnVars, queue, mainPc, idx, cur, retry, audio, faces,
                   facedirs, trackerVars, tried, delays, reported>>

\* the processes that are inside log_failure's "with open(LOG_FILE, "a")"
InLogFailure == {p \in Procs : pc[p] \in {"download_log", "except_log"}}

\* the end of log_failure's with block (the file is closed) and the
\* "return False" that follows the call, in download_video's except branch
\* (then process_video's "if not download_video: return False") or in
\* process_video's except branch
LogClose(p) ==
    /\ p \in InLogFailure
    /\ reported' = [reported EXCEPT ![p] =
                      IF pc[p] = "download_log" THEN Append(@, FALSE) ELSE @]
    /\ Proceed(p, FALSE, "audio")
    /\ UNCHANGED <<confVars, clockVars, rerunVars, fnVars, queue, mainPc, idx, cur, retry, fsVars,
                   log, trackerVars, tried, delays, started>>

\* ------------------------------------------------- ProgressTracker.update
\* "self.current_item % 10 == 0"
REPORT_EVERY == 10
\* "current_time - self.last_update_time > 30"
REPORT_INTERVAL == 30

\* a test that looks at the count only
ReportDue_CountOnly(item, t) == item % REPORT_EVERY = 0

\* "if (self.current_item % 10 == 0) or (current_time -
\* self.last_update_time > 30)", item the count after the increment and t
\* the time read
ReportDue(item, t) ==
    item % REPORT_EVERY = 0 \/ t - last_update_time > REPORT_INTERVAL

\* "self._show_detailed_update()" ("_show_progress_update" in the multi
\* variant) and "self.last_update_time = current_time", when due
MaybeReport ==
    LET due == ReportDue(current_item + 1, now) IN
      /\ detailed' = IF due THEN detailed + 1 ELSE detailed
      /\ last_update_time' = IF due THEN now ELSE last_update_time
      /\ reportedAt' = IF due THEN now ELSE reportedAt

\* an update that forgets to count a failure
update_FailureUncounted(success) ==
    /\ current_item' = current_item + 1
    /\ completed' = IF success THEN completed + 1 ELSE completed
    /\ failed' = failed
    /\ MaybeReport

update(success) ==
    /\ current_item' = current_item + 1
    /\ completed' = IF success THEN completed + 1 ELSE completed
    /\ failed' = IF success THEN failed ELSE failed + 1
    /\ MaybeReport

\* -------------------------------------------------------------------- main
\* a loop that walks the records from the last to the first
LoopRow_Reversed == Len(data) + 1 - idx

\* "for i, video_data in enumerate(data)": the row of the iteration
LoopRow == idx

\* the sequential for loop: "success = process_video(video_data)"
MainCall ==
    /\ mainPc = "loop"
    /\ pc[Main] = "idle"
    /\ idx <= Len(data)
    /\ pc' = [pc EXCEPT ![Main] = "prepare"]
    /\ cur' = [cur EXCEPT ![Main] = LoopRow]
    /\ retry' = [retry EXCEPT ![Main] = 0]
    /\ tried' = [tried EXCEPT ![Main] = <<>>]
    /\ delays' = [delays EXCEPT ![Main] = <<>>]
    /\ started' = [started EXCEPT ![Main] = <<>>]
    /\ reported' = [reported EXCEPT ![Main] = <<>>]
    /\ UNCHANGED <<confVars, clockVars, rerunVars, fnVars, queue, mainPc, idx, ret, fsVars, log, trackerVars,
                   result>>

\* a loop that goes on to the next record without recording the outcome
MainUpdate_Unrecorded ==
    /\ mainPc = "loop"
    /\ pc[Main] = "returned"
    /\ idx' = idx + 1
    /\ pc' = [pc EXCEPT ![Main] = "idle"]
    /\ UNCHANGED <<confVars, clockVars, rerunVars, fnVars, queue, mainPc, cur, retry, ret, fsVars, log,
                   trackerVars, tried, delays, started, reported, result>>

\* "progress.update(success)" and the next iteration
MainUpdate ==
    /\ mainPc = "loop"
    /\ pc[Main] = "returned"
    /\ update(ret[Main])
    /\ after' = IF observed = "nothing" THEN after
                ELSE [after EXCEPT ![idx] =
                        [fs |-> fsVars, delays |-> delays[Main],
                         reported |-> reported[Main]]]
    /\ idx' = idx + 1
    /\ pc' = [pc EXCEPT ![Main] = "idle"]
    /\ UNCHANGED <<confVars, now, trace, errs, fnVars, queue, mainPc, cur, retry, ret, fsVars, log,
                   tried, delays, started, reported, result>>

\* an exception out of process_video: main has no try around the loop
MainAbort ==
    /\ mainPc = "loop"
    /\ pc[Main] = "raised"
    /\ mainPc' = "aborted"
    /\ UNCHANGED <<confVars, clockVars, rerunVars, fnVars, queue, idx, pc, cur, retry, ret, fsVars, log,
                   trackerVars, tried, delays, started, reported, result>>

\* the loop is exhausted
MainLoopEnd ==
    /\ mainPc = "loop"
    /\ pc[Main] = "idle"
    /\ idx > Len(data)
    /\ mainPc' = "summary"
    /\ UNCHANGED <<confVars, clockVars, rerunVars, fnVars, queue, idx, pc, cur, retry, ret, fsVars, log,
                   trackerVars, tried, delays, started, reported, result>>

\* the final summary; "progress.completed/total_videos" raises
\* ZeroDivisionError for an empty record source
FinalSummary ==
    /\ mainPc = "summary"
    /\ mainPc' = IF total_items = 0 THEN "aborted" ELSE "done"
    /\ UNCHANGED <<confVars, clockVars, rerunVars, fnVars, queue, idx, pc, cur, retry, ret, fsVars, log,
                   trackerVars, tried, delays, started, reported, result>>

\* ------------------------------------------------ main with Pool(WORKERS)
\* the multi variant's else branch: "with Pool(WORKERS) as pool", one
\* apply_async per record.  The calls only put the rows on the pool's task
\* queue, in input order.
PoolSubmit ==
    /\ mainPc = "loop"
    /\ variant = "multi" /\ WORKERS > 1
    /\ queue' = [r \in 1..Len(data) |-> r]
    /\ mainPc' = "get"
    /\ UNCHANGED <<confVars, clockVars, rerunVars, fnVars, idx, pc, cur, retry, ret, fsVars, log,
                   trackerVars, tried, delays, started, reported, result>>

\* the pool is alive while main is inside the with block
PoolAlive == mainPc = "get"

\* a worker that takes a task while its previous one is still running
CanTake_Busy(p) == TRUE

\* a pool worker runs one task at a time: it takes the next one when it
\* has handed over the result of the previous one
CanTake(p) == pc[p] = "idle"

\* worker p takes the oldest task of the queue and calls process_video
WorkerTake(p) ==
    /\ PoolAlive
    /\ p \in Workers
    /\ CanTake(p)
    /\ queue # <<>>
    /\ queue' = Tail(queue)
    /\ pc' = [pc EXCEPT ![p] = "prepare"]
    /\ cur' = [cur EXCEPT ![p] = Head(queue)]
    /\ retry' = [retry EXCEPT ![p] = 0]
    /\ tried' = [tried EXCEPT ![p] = <<>>]
    /\ delays' = [delays EXCEPT ![p] = <<>>]
    /\ started' = [started EXCEPT ![p] = <<>>]
    /\ reported' = [reported EXCEPT ![p] = <<>>]
    /\ UNCHANGED <<confVars, clockVars, rerunVars, fnVars, mainPc, idx, ret, fsVars, log,
                   trackerVars, result>>

\* a worker that also counts the outcome in the tracker
WorkerDone_Counts(p) ==
    /\ PoolAlive
    /\ p \in Workers
    /\ pc[p] \in {"returned", "raised"}
    /\ pc' = [pc EXCEPT ![p] = "idle"]
    /\ update(ret[p])
    /\ UNCHANGED <<confVars, now, rerunVars, fnVars, queue, mainPc, idx, cur,
                   retry, ret, fsVars, log, tried, delays, started,
                   reported, result>>

\* worker p hands the outcome of process_video (the value, or the
\* exception it raised) to the AsyncResult of the row
WorkerDone(p) ==
    /\ PoolAlive
    /\ p \in Workers
    /\ pc[p] \in {"returned", "raised"}
    /\ pc' = [pc EXCEPT ![p] = "idle"]
    /\ UNCHANGED <<confVars, clockVars, rerunVars, fnVars, queue, mainPc, idx, cur, retry, ret,
                   fsVars, log, trackerVars, tried, delays, started,
                   reported, result>>

\* the AsyncResult of row r is ready
Ready(r) ==
    /\ result[r] # "none"
    /\ \A p \in Workers : cur[p] = r => pc[p] = "idle"

\* "success = result.get()", "progress.update(success)", in input order
MainGet ==
    /\ mainPc = "get"
    /\ idx <= Len(data)
    /\ Ready(idx)
    /\ result[idx] # "raised"
    /\ update(result[idx] = "True")
    /\ idx' = idx + 1
    /\ UNCHANGED <<confVars, now, rerunVars, fnVars, queue, mainPc, pc, cur, retry, ret,
                   fsVars, log, tried, delays, started, reported, result>>

\* result.get() raises again what process_video raised in the worker;
\* main has no try, and leaving the with block terminates the pool
MainGetRaise ==
    /\ mainPc = "get"
    /\ idx <= Len(data)
    /\ Ready(idx)
    /\ result[idx] = "raised"
    /\ mainPc' = "aborted"
    /\ UNCHANGED <<confVars, clockVars, rerunVars, fnVars, queue, idx, pc, cur, retry, ret, fsVars,
                   log, trackerVars, tried, delays, started, reported,
                   result>>

\* every result has been fetched; the with block ends
MainGetEnd ==
    /\ mainPc = "get"
    /\ idx > Len(data)
    /\ mainPc' = "summary"
    /\ UNCHANGED <<confVars, clockVars, rerunVars, fnVars, queue, idx, pc, cur, retry, ret, fsVars,
                   log, trackerVars, tried, delays, started, reported,
                   result>>

\* ----------------------------------- extract_faces, extract_audio alone
\* detection lists of one evaluated frame
Wide == <<60, 40>>
Boxes(n) == [i \in 1..n |-> Big]
DetLists ==
    { <<>>, <<Small>>, <<Wide>>, <<Big>>, <<Small, Big>>, <<Big, Small>>,
      <<Small, Wide, Big, Big>>, Boxes(FACE_CAP - 1), Boxes(FACE_CAP + 1) }

FaceInputs ==
    {Unopened} \cup
    { Vid(n, d1, d2, e) :
        n \in {0, FRAME_STEP - 1, FRAME_STEP, 2 * FRAME_STEP - 1,
               2 * FRAME_STEP, 3 * FRAME_STEP},
        d1 \in DetLists, d2 \in DetLists,
        e \in {0, FRAME_STEP, 2 * FRAME_STEP} }

\* start_time and end_time of a record as main passes them: numbers, 0 for
\* a missing or non-numeric field
Offsets == 0..MaxOffset

FnIdle ==
    /\ fnIn = [v |-> Unopened, start |-> 0, end |-> 0]
    /\ fnFaces = NoFaces
    /\ fnAudio = FullTrack
    /\ fnDone = {}

\* extract_faces(video_path, ...) on a video whose content is fnIn.v
CallExtractFaces ==
    /\ "faces" \notin fnDone
    /\ fnFaces' = extract_faces(variant, fnIn.v)
    /\ fnDone' = fnDone \cup {"faces"}
    /\ UNCHANGED <<confVars, clockVars, rerunVars, mainPc, idx, pc, cur, retry, ret, fsVars, log,
                   queue, trackerVars, tried, delays, started, reported,
                   result, fnIn, fnAudio>>

\* extract_audio for a record with offsets fnIn.start, fnIn.end
CallExtractAudio ==
    /\ "audio" \notin fnDone
    /\ fnAudio' = AudioPlan(variant, fnIn.start, fnIn.end)
    /\ fnDone' = fnDone \cup {"audio"}
    /\ UNCHANGED <<confVars, clockVars, rerunVars, mainPc, idx, pc, cur, retry, ret, fsVars, log,
                   queue, trackerVars, tried, delays, started, reported,
                   result, fnIn, fnFaces>>

\* ------------------------------------------- ProgressTracker on its own
\* seconds that pass between two looks at the clock
TickSteps == {1, 30}

\* time passes.  Only SpecTracker has this step: the clock is read by
\* nothing but the report test, and the report is console output
Tick(d) ==
    /\ now + d <= MaxClock
    /\ now' = now + d
    /\ UNCHANGED <<confVars, rerunVars, fnVars, reportVars, queue, mainPc,
                   idx, pc, cur, retry, ret, fsVars, log, trackerVars,
                   tried, delays, started, reported, result>>

\* "progress.update(success)", once per record
CallUpdate(success) ==
    /\ current_item < total_items
    /\ update(success)
    /\ UNCHANGED <<confVars, rerunVars, fnVars, now, queue, mainPc, idx, pc,
                   cur, retry, ret, fsVars, log, tried, delays, started,
                   reported, result>>

\* ----------------------------------------------------------- specification
RecordLists == UNION {[1..n -> Ids] : n \in 0..MaxRecords}

InitConfig ==
    /\ variant \in {"single", "multi"}
    /\ MODE \in {"TEST", "PRODUCTION"}
    /\ WORKERS \in (IF MODE = "TEST" THEN {1} ELSE 1..MaxWorkers)
    /\ data \in RecordLists
    /\ total_items = Len(data)
    /\ observed = "nothing"

InitState ==
    /\ mainPc = "loop"
    /\ idx = 1
    /\ pc = [p \in Procs |-> "idle"]
    /\ cur = [p \in Procs |-> 0]
    /\ retry = [p \in Procs |-> 0]
    /\ ret = [p \in Procs |-> FALSE]
    /\ video = {}
    /\ audio = {}
    /\ faces = [i \in Ids |-> 0]
    /\ facedirs = {}
    /\ log = <<>>
    /\ queue = <<>>
    /\ current_item = 0
    /\ completed = 0
    /\ failed = 0
    /\ tried = [p \in Procs |-> <<>>]
    /\ delays = [p \in Procs |-> <<>>]
    /\ started = [p \in Procs |-> <<>>]
    /\ reported = [p \in Procs |-> <<>>]
    /\ result = [r \in 1..Len(data) |-> "none"]
    /\ trace = [r \in 1..Len(data) |-> <<>>]
    /\ errs = [r \in 1..Len(data) |-> <<>>]
    /\ now = 0
    /\ last_update_time = 0
    /\ detailed = 0
    /\ reportedAt = -1
    /\ after = [r \in 1..Len(data) |-> <<>>]

\* the dispatcher is the sequential loop: always in the single variant,
\* for WORKERS = 1 in the multi variant
Sequential == variant = "multi" => WORKERS = 1

Init == InitConfig /\ Sequential /\ InitState /\ FnIdle

Next ==
    \/ MainCall
    \/ \E o \in {"ok", "raise"} : PreparePaths(Main, o)
    \/ \E o \in DownloadOutcomes : \E e \in ErrorsOf(o) :
          DownloadAttempt(Main, o, e)
    \/ \E o \in AudioOutcomes : ExtractAudio(Main, o)
    \/ \E v \in Videos : ExtractFaces(Main, v)
    \/ \E o \in {"ok", "raise"} : Cleanup(Main, o)
    \/ LogClose(Main)
    \/ MainUpdate
    \/ MainAbort
    \/ MainLoopEnd
    \/ FinalSummary

Spec == Init /\ [][Next]_vars

\* the multi variant with WORKERS > 1
InitPool ==
    /\ InitConfig
    /\ variant = "multi" /\ WORKERS > 1
    /\ InitState
    /\ FnIdle

NextPool ==
    \/ PoolSubmit
    \/ \E p \in Workers : WorkerTake(p)
    \/ \E p \in Workers, o \in {"ok", "raise"} :
          PoolAlive /\ PreparePaths(p, o)
    \/ \E p \in Workers, o \in DownloadOutcomes : \E e \in ErrorsOf(o) :
          PoolAlive /\ DownloadAttempt(p, o, e)
    \/ \E p \in Workers, o \in AudioOutcomes :
          PoolAlive /\ ExtractAudio(p, o)
    \/ \E p \in Workers, v \in Videos : PoolAlive /\ ExtractFaces(p, v)
    \/ \E p \in Workers, o \in {"ok", "raise"} : PoolAlive /\ Cleanup(p, o)
    \/ \E p \in Workers : PoolAlive /\ LogClose(p)
    \/ \E p \in Workers : WorkerDone(p)
    \/ MainGet
    \/ MainGetRaise
    \/ MainGetEnd
    \/ FinalSummary

SpecPool == InitPool /\ [][NextPool]_vars

\* process_video run twice on the same record by the sequential loop, the
\* two runs traced
InitRerun ==
    /\ variant \in {"single", "multi"}
    /\ MODE \in {"TEST", "PRODUCTION"}
    /\ WORKERS = 1
    /\ data \in {<<i, i>> : i \in Ids}
    /\ total_items = Len(data)
    /\ observed = "stages"
    /\ InitState
    /\ FnIdle

SpecRerun == InitRerun /\ [][Next]_vars

\* the same two runs, the error text of every download attempt kept
InitRetry ==
    /\ variant \in {"single", "multi"}
    /\ MODE \in {"TEST", "PRODUCTION"}
    /\ WORKERS = 1
    /\ data \in {<<i, i>> : i \in Ids}
    /\ total_items = Len(data)
    /\ observed = "errors"
    /\ InitState
    /\ FnIdle

SpecRetry == InitRetry /\ [][Next]_vars

\* one call of extract_faces and of extract_audio, for every policy and
\* every argument of FaceInputs and Offsets
InitFn ==
    /\ variant \in {"single", "multi"}
    /\ MODE = "TEST"
    /\ WORKERS = 1
    /\ data = <<>>
    /\ total_items = 0
    /\ observed = "nothing"
    /\ InitState
    /\ fnIn \in [v : FaceInputs, start : Offsets, end : Offsets]
    /\ fnFaces = NoFaces
    /\ fnAudio = FullTrack
    /\ fnDone = {}

NextFn == CallExtractFaces \/ CallExtractAudio

SpecFn == InitFn /\ [][NextFn]_vars

\* a ProgressTracker for MaxUpdates records, updated as time passes
InitTracker ==
    /\ variant \in {"single", "multi"}
    /\ MODE = "TEST"
    /\ WORKERS = 1
    /\ data = <<>>
    /\ total_items = MaxUpdates
    /\ observed = "nothing"
    /\ InitState
    /\ FnIdle

NextTracker ==
    \/ \E d \in TickSteps : Tick(d)
    \/ \E success \in BOOLEAN : CallUpdate(success)

SpecTracker == InitTracker /\ [][NextTracker]_vars


\* ------------------------------------------------------------- properties
Stages == <<"download", "audio", "faces", "cleanup">>

IsPrefix(s, t) == Len(s) <= Len(t) /\ \A k \in 1..Len(s) : s[k] = t[k]

\* the log lines written by the process_video call of row r
LinesOf(r) == {k \in 1..Len(log) : log[k].row = r}

\* attempts made so far by the current download_video of p
Attempts(p) == Len(tried[p])

\* download_video of p has returned False
DownloadFailed(p) == Len(reported[p]) >= 1 /\ ~reported[p][1]

\* download_video of p ran out of retries: the attempt with
\* retry = MAX_RETRIES raised
Exhausted(p) ==
    /\ Attempts(p) = MAX_RETRIES + 1
    /\ tried[p][Attempts(p)] = "raise"

Returned(p, b) == pc[p] = "returned" /\ ret[p] = b

\* C1: once process_video has returned False, the transient video file
\* {id}_full.mp4 of the record does not exist, whatever stage failed.
C1_NoVideoAfterFailure ==
    \A p \in Procs : Returned(p, FALSE) => RowId(p) \notin video

\* C2: when process_video returns True the transient video file does not
\* exist, the record's audio file exists and at least one face image of
\* the record exists.
C2_SuccessArtifacts ==
    \A p \in Procs :
        Returned(p, TRUE) => /\ RowId(p) \notin video
                             /\ RowId(p) \in audio
                             /\ faces[RowId(p)] >= 1

C2_Witness == \E p \in Procs : Returned(p, TRUE)

\* C3: starting from empty output directories, whenever no process_video
\* call is under way every audio file on storage has a face image of the
\* same record (a failed record leaves no audio or face behind).
C3_AllOrNothing ==
    (\A p \in Procs : pc[p] \in {"idle", "returned"})
        => \A i \in audio : faces[i] >= 1

\* C4: every record whose process_video returned False has a line in the
\* failure log, and at the end of a run the number of log lines written
\* equals the failed counter.
C4_FailuresLogged ==
    /\ \A p \in Procs : Returned(p, FALSE) => LinesOf(cur[p]) # {}
    /\ mainPc = "done" => Len(log) = failed

\* C5: a download_video call that returns False (every attempt raised, or
\* completed without producing the destination file) has made exactly
\* MAX_RETRIES + 1 attempts.
C5_AttemptsOnFailure ==
    \A p \in Procs : DownloadFailed(p) => Attempts(p) = MAX_RETRIES + 1

\* C6: within one download_video the sleep between attempt i and attempt
\* i+1 (i from 0) is 2^i seconds, one sleep per retry: 1, 2, 4, ...,
\* never decreasing.
C6_BackoffDelays ==
    \A p \in Procs :
        /\ Len(delays[p]) = retry[p]
        /\ \A k \in 1..Len(delays[p]) : delays[p][k] = 2 ^ (k - 1)
        /\ \A k \in 2..Len(delays[p]) : delays[p][k - 1] <= delays[p][k]

C6_Witness == \E p \in Procs : Len(delays[p]) = MAX_RETRIES

\* C7: when download_video exhausts its retries it has appended exactly
\* one line, "id,Download failed,...", and returned False; while attempts
\* are still being retried nothing has been appended.
C7_LogOnExhaustion ==
    \A p \in Procs :
        /\ pc[p] = "download" => LinesOf(cur[p]) = {}
        /\ Exhausted(p) =>
              /\ pc[p] # "download_log" => DownloadFailed(p)
              /\ Cardinality(LinesOf(cur[p])) = 1
              /\ \A k \in LinesOf(cur[p]) :
                    log[k].id = RowId(p) /\ log[k].reason = "Download failed"

C7_Witness == \E p \in Procs : Exhausted(p) /\ Returned(p, FALSE)

\* C8: within one process_video run the stages are called in the order
\* download, audio, faces, cleanup, each at most once; a stage is called
\* only if the stage before it reported success, and after a stage has
\* reported failure no further stage is called.
C8_StageOrder ==
    \A p \in Procs :
        /\ IsPrefix(started[p], Stages)
        /\ Len(reported[p]) <= Len(started[p])
        /\ \A k \in 2..Len(started[p]) :
              k - 1 <= Len(reported[p]) /\ reported[p][k - 1]
        /\ \A k \in 1..Len(reported[p]) :
              ~reported[p][k] => /\ Len(started[p]) = k
                                 /\ pc[p] \in {"returned", "idle"}
                                 /\ ~ret[p]

C8_Witness ==
    \E p \in Procs : started[p] = Stages /\ Returned(p, TRUE)

\* C9: process_video never lets an exception reach its caller.
C9_NoExceptionEscapes == \A p \in Procs : pc[p] # "raised"

\* C10: when the run is over every record's outcome has been recorded
\* exactly once: current_item = N, completed = the number of process_video
\* calls that returned True, failed = N - completed.
C10_AllRecorded ==
    mainPc \in {"done", "aborted"} =>
        /\ current_item = Len(data)
        /\ completed = Cardinality({r \in 1..Len(data) : result[r] = "True"})
        /\ failed = Len(data) - completed


\* C11: an error while removing the video after download, audio extraction
\* and face extraction all succeeded does not change the outcome:
\* process_video returns True.
C11_CleanupNeverFails ==
    \A p \in Procs :
        (/\ pc[p] = "returned"
         /\ started[p] = Stages
         /\ Len(reported[p]) = 3
         /\ \A k \in 1..3 : reported[p][k])
            => ret[p]

\* C15: with WORKERS = 1 the records are processed one after the other in
\* input order: the pipeline under way is the one of row idx, every row
\* before it has returned and has been recorded by the tracker, and no row
\* after it has been started.
C15_SequentialInOrder ==
    WORKERS = 1 =>
        /\ current_item = idx - 1
        /\ \A p \in Procs : pc[p] # "idle" => p = Main /\ cur[p] = idx
        /\ \A r \in 1..Len(data) :
              /\ r < idx => result[r] # "none"
              /\ r > idx => result[r] = "none"

C15_Witness ==
    WORKERS = 1 /\ idx = 2 /\ pc[Main] = "download" /\ Len(data) = 2

\* C16: current_item = completed + failed in every state, current_item
\* never exceeds total_items, and every change of the counters adds 1 to
\* current_item and 1 to exactly one of completed and failed.
C16_CountersConsistent ==
    /\ [](current_item = completed + failed /\ current_item <= total_items)
    /\ [][trackerVars' # trackerVars =>
            /\ current_item' = current_item + 1
            /\ \/ completed' = completed + 1 /\ failed' = failed
               \/ completed' = completed /\ failed' = failed + 1]_vars

C16_Witness ==
    current_item = total_items /\ completed >= 1 /\ failed >= 1

\* C17: whenever download_video returns True, on the first attempt or on a
\* retry, the destination file exists at that moment.
C17_TrueOnlyIfFileExists ==
    [][\A p \in Procs :
          (Len(reported[p]) = 0 /\ Len(reported'[p]) = 1 /\ reported'[p][1])
             => data[cur[p]] \in video']_vars

C17_Witness ==
    \E p \in Procs : pc[p] = "audio" /\ Attempts(p) > 1 /\ reported[p][1]


FacesCalled(policy) == variant = policy /\ "faces" \in fnDone

Last(q) == q[Len(q)]

\* C18: under the single-face policy one call of extract_faces writes at
\* most one crop, only for a box of width >= 50 and height >= 50, looks at
\* no detection and no frame after the one it wrote, and returns True if
\* and only if it wrote a crop.
C18_SingleFace ==
    FacesCalled("single") =>
        /\ Len(fnFaces.crops) <= 1
        /\ fnFaces.written = Len(fnFaces.crops)
        /\ \A c \in 1..Len(fnFaces.crops) :
              /\ fnFaces.crops[c].box[1] >= 50
              /\ fnFaces.crops[c].box[2] >= 50
              /\ fnFaces.crops[c].box =
                    fnIn.v.frames[fnFaces.crops[c].frame][fnFaces.crops[c].det]
              /\ Last(fnFaces.evaluated) = fnFaces.crops[c].frame
              /\ Last(fnFaces.examined) = fnFaces.crops[c].det
        /\ fnFaces.ret <=> Len(fnFaces.crops) = 1

\* a small box was passed over, the crop is the second detection or later,
\* and the video has frames after the one that was written
C18_Witness ==
    /\ FacesCalled("single")
    /\ Len(fnFaces.crops) = 1
    /\ fnFaces.crops[1].det > 1
    /\ fnFaces.crops[1].det < Len(fnIn.v.frames[fnFaces.crops[1].frame])
    /\ fnFaces.crops[1].frame < Len(fnIn.v.frames)

C20_TrimPolicy ==
    "audio" \in fnDone =>
        fnAudio = IF fnIn.end > fnIn.start
                  THEN [trim |-> TRUE, ss |-> fnIn.start,
                        t |-> fnIn.end - fnIn.start]
                  ELSE [trim |-> FALSE, ss |-> 0, t |-> 0]


\* a worker that is inside process_video
Running(p) ==
    pc[p] \in {"prepare", "download", "download_log", "audio", "faces",
               "cleanup", "except_log"}

InFlight == {p \in Procs : Running(p)}

\* C12: with WORKERS > 1 no two pipelines that are in flight at the same
\* time use the same video, audio or face path (the paths are functions of
\* the identifier alone), for every input sequence, repeated identifiers
\* included.
C12_DisjointPaths ==
    \A p, q \in InFlight : p # q => RowId(p) # RowId(q)

\* C13: at no time are two workers inside log_failure's open-write-close
\* sequence on the log file.
C13_LogSerialized == Cardinality(InLogFailure) <= 1

BothRuns == observed # "nothing" /\ Len(data) = 2 /\ idx > 2

\* at every stage both runs reached the environment did the same
SameOutcomes == IsPrefix(trace[1], trace[2]) \/ IsPrefix(trace[2], trace[1])

\* C21: process_video run a second time on the same record, the
\* environment doing at every stage what it did in the first run, returns
\* what the first run returned and leaves on storage the artifacts the
\* first run left, after the same stages: artifacts that already exist
\* are replaced, they make no stage fail.
C21_RerunSameArtifacts ==
    (BothRuns /\ SameOutcomes) =>
        /\ trace[2] = trace[1]
        /\ result[2] = result[1]
        /\ after[2] = after[1]

\* the first run succeeded, so the second found the audio and the face of
\* the record on storage, and succeeded too
C21_Witness ==
    /\ BothRuns
    /\ trace[1] = trace[2]
    /\ result[1] = "True" /\ result[2] = "True"
    /\ data[1] \in after[1].fs[2]
    /\ after[1].fs[3][data[1]] >= 1


\* the outcomes of the download attempts of row r, the error texts left out
Outs(r) == [k \in 1..Len(errs[r]) |-> errs[r][k].out]

\* as far as both went, the attempts of the two downloads ended the same
\* way, whatever the texts of the errors
SameAttempts == IsPrefix(Outs(1), Outs(2)) \/ IsPrefix(Outs(2), Outs(1))

\* the log lines written by the download_video call of row r
DownloadLines(r) == {k \in LinesOf(r) : log[k].reason = "Download failed"}

C23_EveryThirtiethFrame ==
    "faces" \in fnDone =>
        /\ \A j \in 1..Len(fnFaces.evaluated) :
              /\ fnFaces.evaluated[j] = 30 * j
              /\ fnFaces.evaluated[j] <= Len(fnIn.v.frames)
        /\ (~fnFaces.raised /\ KeepScanning(variant, fnFaces.written)) =>
              Len(fnFaces.evaluated) = Len(fnIn.v.frames) \div 30
        /\ (~fnIn.v.opened \/ Len(fnIn.v.frames) < 30) =>
              /\ ~fnFaces.ret
              /\ fnFaces.evaluated = <<>>
              /\ fnFaces.crops = <<>>

\* a stream of 90 frames scanned to its end
C23_Witness ==
    /\ "faces" \in fnDone
    /\ fnFaces.evaluated = <<30, 60, 90>>
    /\ Len(fnFaces.crops) >= 1


\* C24: the single variant with WORKERS > 1 runs the same loop: at most
\* one pipeline is in flight, it is run by main itself on row idx, every
\* row before it has returned and been recorded by the tracker, and no
\* row after it has been started.
C24_SingleVariantSequential ==
    (variant = "single" /\ WORKERS > 1) =>
        /\ Cardinality(InFlight) <= 1
        /\ InFlight \subseteq {Main}
        /\ Running(Main) => cur[Main] = idx
        /\ current_item = idx - 1
        /\ \A r \in 1..Len(data) :
              /\ r < idx => result[r] # "none" /\ current_item >= r
              /\ r > idx => result[r] = "none"

C24_Witness ==
    /\ variant = "single" /\ WORKERS > 1
    /\ Len(data) = 2 /\ idx = 2
    /\ pc[Main] = "faces"
    /\ current_item = 1


\* C25: in the pool variant the counters change only in a step of main
\* that fetches the result of row idx (no worker moves in that step), the
\* step counts the outcome of that row, and the rows are counted in input
\* order: current_item is always the number of rows before idx.
C25_CountedByMainInOrder ==
    /\ [](current_item = idx - 1)
    /\ [][trackerVars' # trackerVars =>
            /\ mainPc = "get" /\ idx' = idx + 1
            /\ pc' = pc /\ cur' = cur /\ queue' = queue
            /\ result[idx] \in {"True", "False"}
            /\ completed' = completed + (IF result[idx] = "True" THEN 1 ELSE 0)
            /\ failed' = failed + (IF result[idx] = "False" THEN 1 ELSE 0)]_vars

\* row 2 failed and wrote its log line before row 1 did; row 1 has been
\* counted, row 2 waits for its turn
C25_Witness ==
    /\ mainPc = "get" /\ idx = 2
    /\ current_item = 1 /\ failed = 1
    /\ Len(log) = 2 /\ log[1].row = 2 /\ log[2].row = 1
    /\ Ready(2)


\* C26: one download_video makes at most MAX_RETRIES + 1 attempts,
\* whatever the attempts do; every attempt but the last one raised; and
\* once an attempt has completed without raising, or the attempt with
\* retry = MAX_RETRIES has raised, download_video is over.
C26_BoundedAttempts ==
    \A p \in Procs :
        /\ Attempts(p) <= MAX_RETRIES + 1
        /\ \A k \in 1..(Attempts(p) - 1) : tried[p][k] = "raise"
        /\ (Attempts(p) >= 1 /\ Last(tried[p]) # "raise") =>
              pc[p] # "download"
        /\ Exhausted(p) => pc[p] # "download"

\* the last attempt allowed completed without raising
C26_Witness ==
    \E p \in Procs :
        /\ Attempts(p) = MAX_RETRIES + 1
        /\ Last(tried[p]) = "nofile"
        /\ pc[p] = "returned"


\* C27: the process_video run of a row appends at most one line to the
\* failure log, and none if it returns True, also when the download
\* succeeded on a retry.
C27_OneLinePerRun ==
    \A r \in 1..Len(data) :
        /\ Cardinality(LinesOf(r)) <= 1
        /\ result[r] = "True" => LinesOf(r) = {}

\* a run that returned True after its download was retried, on a log that
\* has the line of another run
C27_Witness ==
    /\ log # <<>>
    /\ \E p \in Procs :
          Returned(p, TRUE) /\ Attempts(p) > 1 /\ LinesOf(cur[p]) = {}


\* C28 as stated: an update shows the detailed report if and only if the
\* count it reaches is a multiple of 10 or more than 30 seconds have
\* passed since the previous report; a report restarts the 30 seconds.
C28_ReportWhenDue ==
    [][current_item' # current_item =>
         /\ detailed' \in {detailed, detailed + 1}
         /\ detailed' = detailed + 1 <=>
               \/ current_item' % 10 = 0
               \/ reportedAt >= 0 /\ now - reportedAt > 30
         /\ reportedAt' = IF detailed' = detailed + 1 THEN now
                          ELSE reportedAt]_vars

\* C28 as amended: the 30 seconds run from the previous report or, while
\* no report has been shown, from the creation of the tracker (time 0).
C28_ReportWhenDueSinceStart ==
    [][current_item' # current_item =>
         /\ detailed' \in {detailed, detailed + 1}
         /\ detailed' = detailed + 1 <=>
               \/ current_item' % 10 = 0
               \/ now - (IF reportedAt >= 0 THEN reportedAt ELSE 0) > 30
         /\ reportedAt' = IF detailed' = detailed + 1 THEN now
                          ELSE reportedAt]_vars

\* the tenth update has shown a report less than 30 seconds after a report
\* that the clock had triggered
C28_Witness ==
    /\ current_item = 10
    /\ detailed = 2
    /\ reportedAt = now
    /\ now > 30 /\ now < 60

====
